---- MODULE Spec2Model ----
(***************************************************************************)
(* A model of the sloth virtual machine (src/sloth/core.py,                *)
(* src/sloth/primitives.py) driven by the read-eval loop of                *)
(* src/sloth/repl.py.                                                      *)
(*                                                                         *)
(* Characters are one-character strings, a text is a sequence of them.     *)
(* A run-time value is a tagged record (int, bool, word reference).  Word  *)
(* objects live in the object store `words`; a word reference is an index  *)
(* into it, so that two names (or a name and a code slot) can share one    *)
(* word object as they do in Python.                                       *)
(***************************************************************************)
EXTENDS Integers, Sequences, FiniteSets, TLC

\* ------------------------------------------------------------------ bounds

\* Number of lines the read-eval loop reads in one behaviour.
MaxLines == 2

\* ------------------------------------------------------------------ values

IntV(n) == [t |-> "int", n |-> n]
BoolV(b) == [t |-> "bool", b |-> b]
WordV(w) == [t |-> "word", w |-> w]

\* Python: bool is a subclass of int.
IsNum(v) == v.t \in {"int", "bool"}
Num(v) == IF v.t = "int" THEN v.n ELSE IF v.b THEN 1 ELSE 0

\* Python truth value (`not x`, `if x`): a word object is always true.
Truthy(v) == IF v.t = "word" THEN TRUE ELSE Num(v) # 0

\* The key a value hashes to in a dict: True == 1 and False == 0.
Key(v) == IF v.t = "bool" THEN IntV(Num(v)) ELSE v

\* `callable(word)` in handle_op: words are callable, numbers are not.
Callable(v) == v.t = "word"

\* ------------------------------------------------------------ Python lists

\* seq[i] with Python's zero-based index and negative indices from the end.
PyIndexOK(seq, i) == -Len(seq) <= i /\ i < Len(seq)
PyGet(seq, i) == IF i >= 0 THEN seq[i + 1] ELSE seq[Len(seq) + i + 1]
PySet(seq, i, v) ==
    IF i >= 0 THEN [seq EXCEPT ![i + 1] = v] ELSE [seq EXCEPT ![Len(seq) + i + 1] = v]
\* seq[i:] for any integer i.
PyTail(seq, i) ==
    LET from == IF i >= 0 THEN i ELSE IF Len(seq) + i >= 0 THEN Len(seq) + i ELSE 0
    IN SubSeq(seq, from + 1, Len(seq))

Top(s) == s[Len(s)]
Pop(s) == SubSeq(s, 1, Len(s) - 1)
Push(s, v) == Append(s, v)

\* ------------------------------------------------------------- CharStream

\* string.whitespace, as far as a TLA+ string can spell it.
Whitespace == {" ", "\t", "\n", "\r", "\f"}

\* A CharStream is [buf, pos, last_word_start]: the StringIO's contents, its
\* position (tell), and the attribute last_word_start (-1 for None).
CharStream(text) == [buf |-> text, pos |-> 0, last_word_start |-> -1]

AtEnd(st) == st.pos >= Len(st.buf)

\* First position >= p holding a non-whitespace character, Len(buf) if none.
RECURSIVE SkipWs(_, _)
SkipWs(buf, p) ==
    IF p >= Len(buf) THEN Len(buf)
    ELSE IF buf[p + 1] \in Whitespace THEN SkipWs(buf, p + 1) ELSE p

\* First position >= p holding a whitespace character, Len(buf) if none.
RECURSIVE WordEnd(_, _)
WordEnd(buf, p) ==
    IF p >= Len(buf) THEN Len(buf)
    ELSE IF buf[p + 1] \in Whitespace THEN p ELSE WordEnd(buf, p + 1)

\* CharStream.__next__: [eof, word, st].  With eof the skipped whitespace is
\* consumed and StopIteration leaves the method.
NextWord(st) ==
    LET b == SkipWs(st.buf, st.pos)
        e == WordEnd(st.buf, b)
    IN IF b >= Len(st.buf)
       THEN [eof |-> TRUE, word |-> <<>>, st |-> [st EXCEPT !.pos = Len(st.buf)]]
       ELSE [eof |-> FALSE,
             word |-> SubSeq(st.buf, b + 1, e),
             st |-> [st EXCEPT !.pos = IF e < Len(st.buf) THEN e + 1 ELSE e,
                               !.last_word_start = b + 1]]

\* StringIO.write at a position: overwrites from there and extends the
\* buffer when the text runs past its end; the position moves past the text.
StringIOWrite(buf, pos, text) ==
    SubSeq(buf, 1, pos) \o text \o SubSeq(buf, pos + Len(text) + 1, Len(buf))

\* CharStream.write: tell, write a newline, write the text, seek back.
Write(st, text) ==
    LET b1 == StringIOWrite(st.buf, st.pos, <<"\n">>)
        b2 == StringIOWrite(b1, st.pos + 1, text)
    IN [st EXCEPT !.buf = b2]

\* --------------------------------------------------------- number literals

Digits == {"0", "1", "2", "3", "4", "5", "6", "7", "8", "9"}
DigitVal(c) ==
    CASE c = "0" -> 0 [] c = "1" -> 1 [] c = "2" -> 2 [] c = "3" -> 3
      [] c = "4" -> 4 [] c = "5" -> 5 [] c = "6" -> 6 [] c = "7" -> 7
      [] c = "8" -> 8 [] c = "9" -> 9

\* tokenize.Number restricted to the characters of this model (no `_`, `.`,
\* no letter after a digit): the decimal branch, 0+ or [1-9][0-9]*.
IsDecimal(s) ==
    /\ Len(s) >= 1
    /\ \A i \in 1..Len(s) : s[i] \in Digits
    /\ (s[1] = "0" => \A i \in 1..Len(s) : s[i] = "0")

\* NUMLIT_RE.fullmatch: an optional minus sign, then a number.
is_numeric_literal(name) ==
    IF Len(name) >= 1 /\ name[1] = "-" THEN IsDecimal(Tail(name)) ELSE IsDecimal(name)

RECURSIVE DecimalValue(_)
DecimalValue(s) ==
    IF Len(s) = 0 THEN 0
    ELSE 10 * DecimalValue(SubSeq(s, 1, Len(s) - 1)) + DigitVal(s[Len(s)])

\* eval(name) of a matched literal.
convert_numeric_literal(name) ==
    IF name[1] = "-" THEN IntV(0 - DecimalValue(Tail(name))) ELSE IntV(DecimalValue(name))

\* ------------------------------------------------------------ word objects

\* The names the built-in words are registered under.
sym_add == <<"+">>
sym_mul == <<"*">>
sym_neg == <<"n", "e", "g">>
sym_drop == <<"d", "r", "o", "p">>
sym_swap == <<"s", "w", "a", "p">>
sym_dup == <<"d", "u", "p">>
sym_rpush == <<">", "r">>
sym_rpop == <<"r", ">">>
sym_rdrop == <<"r", "d", "r", "o", "p">>
sym_rplus == <<"r", "+">>
sym_rminus == <<"r", "-">>
sym_eye == <<"i">>
sym_exit == <<"e", "x", "i", "t">>
sym_bang == <<"!">>
sym_at == <<"@">>
sym_immediate == <<"i", "m", "m", "e", "d", "i", "a", "t", "e">>
sym_lbrac == <<"[">>
sym_rbrac == <<"]">>
sym_tick == <<"'">>
sym_does == <<"d", "o", "e", "s", ">">>
sym_comma == <<",">>
sym_create == <<"c", "r", "e", "a", "t", "e">>
sym_colon == <<":">>
sym_semicolon == <<";">>
sym_hidden == <<"h", "i", "d", "d", "e", "n">>
sym_import == <<"i", "m", "p", "o", "r", "t">>

\* BuiltinWord(func, symbol, immediate): `hidden` and `code` are attributes
\* of defined words only (builtin marks the class), kept here so that every
\* word object is a record of one shape.  stack_effect and doc (__doc__)
\* are <<>> for None and <<text>> for a text; the docstrings of the
\* built-in functions are not represented.
BuiltinWord(func, symbol, immediate) ==
    [builtin |-> TRUE, func |-> func, symbol |-> symbol, immediate |-> immediate,
     hidden |-> FALSE, code |-> <<>>, text_location |-> -1,
     stack_effect |-> <<>>, doc |-> <<>>]

\* DefinedWord(symbol).__init__
DefinedWord(symbol) ==
    [builtin |-> FALSE, func |-> "", symbol |-> symbol, immediate |-> FALSE,
     hidden |-> FALSE, code |-> <<>>, text_location |-> -1,
     stack_effect |-> <<>>, doc |-> <<>>]

\* The word objects the RegisterBuiltin decorators create when the module
\* primitives is loaded, in the order of the file.
Registered ==
    << BuiltinWord("neg", sym_neg, FALSE),
       BuiltinWord("add", sym_add, FALSE),
       BuiltinWord("mul", sym_mul, FALSE),
       BuiltinWord("zero_eq", <<"0", "=">>, FALSE),
       BuiltinWord("zero_ne", <<"0", "<", ">">>, FALSE),
       BuiltinWord("zero_lt", <<"0", "<">>, FALSE),
       BuiltinWord("zero_gt", <<"0", ">">>, FALSE),
       BuiltinWord("one_eq", <<"1", "=">>, FALSE),
       BuiltinWord("drop", sym_drop, FALSE),
       BuiltinWord("swap", sym_swap, FALSE),
       BuiltinWord("dup", sym_dup, FALSE),
       BuiltinWord("rot", <<"r", "o", "t">>, FALSE),
       BuiltinWord("mrot", <<"-", "r", "o", "t">>, FALSE),
       BuiltinWord("rpush", sym_rpush, FALSE),
       BuiltinWord("rpop", sym_rpop, FALSE),
       BuiltinWord("rdrop", sym_rdrop, FALSE),
       BuiltinWord("rplus", sym_rplus, FALSE),
       BuiltinWord("rminus", sym_rminus, FALSE),
       BuiltinWord("eye", sym_eye, FALSE),
       BuiltinWord("exit", sym_exit, FALSE),
       BuiltinWord("paired_comment", <<"(">>, TRUE),
       BuiltinWord("doc_comment", <<"(", "\"">>, TRUE),
       BuiltinWord("bang", sym_bang, FALSE),
       BuiltinWord("word_bang", <<"w", "!">>, FALSE),
       BuiltinWord("plus_bang", <<"+", "!">>, FALSE),
       BuiltinWord("at", sym_at, FALSE),
       BuiltinWord("immediate", sym_immediate, TRUE),
       BuiltinWord("branch", <<"b", "r", "a", "n", "c", "h">>, FALSE),
       BuiltinWord("zbranch", <<"0", "b", "r", "a", "n", "c", "h">>, FALSE),
       BuiltinWord("lbrac", sym_lbrac, TRUE),
       BuiltinWord("rbrac", sym_rbrac, FALSE),
       BuiltinWord("interp_tick", sym_tick, FALSE),
       BuiltinWord("does", sym_does, FALSE),
       BuiltinWord("comma", sym_comma, FALSE),
       BuiltinWord("create", sym_create, FALSE),
       BuiltinWord("colon", sym_colon, FALSE),
       BuiltinWord("semicolon", sym_semicolon, TRUE),
       BuiltinWord("hidden", sym_hidden, TRUE),
       BuiltinWord("import_module", sym_import, TRUE) >>

\* PRIMITIVES: symbol -> word object (its index in the object store).
PRIMITIVES ==
    [s \in {Registered[i].symbol : i \in 1..Len(Registered)} |->
        CHOOSE i \in 1..Len(Registered) : Registered[i].symbol = s]

\* The object store right after the module primitives is loaded.
InitialWords == Registered

\* -------------------------------------------------------- VirtualMachine

EmptyMap == [x \in {} |-> 0]

\* VirtualMachine.__init__ before the first backup is taken.
NewVm(text) ==
    [stream |-> CharStream(text),
     ip |-> IntV(0),
     stack |-> <<>>,
     return_stack |-> <<>>,
     frame_stack |-> <<>>,
     dictionary |-> PRIMITIVES,
     heap |-> EmptyMap,
     last_word |-> 0,
     immediate |-> TRUE,
     backup |-> <<>>]

\* deepcopy(self): the machine and every object it reaches, the word
\* objects included.
DeepCopy(vm, ws) == [vm |-> vm, words |-> ws]

\* VirtualMachine.__init__
VirtualMachine(text, ws) ==
    [NewVm(text) EXCEPT !.backup = <<DeepCopy(NewVm(text), ws)>>]

\* The outcome of a piece of code run on a machine c = [vm, words]:
\* exc is the class of the exception that left it ("" when it returned),
\* call the defined word whose __call__ was entered (0 for none), imp the
\* text of the module a sub-machine is to run (<<>> for none).
Ok(c) == [vm |-> c.vm, words |-> c.words, exc |-> "", call |-> 0, imp |-> <<>>]
Raise(c, kind) == [vm |-> c.vm, words |-> c.words, exc |-> kind, call |-> 0, imp |-> <<>>]
Ctx(r) == [vm |-> r.vm, words |-> r.words]

\* VirtualMachine.make_backup
make_backup(c) == [c EXCEPT !.vm.backup = <<DeepCopy(c.vm, c.words)>>]

\* VirtualMachine.revert: `self = deepcopy(self.backup)` binds the local
\* name self; no attribute of the machine is assigned.
revert(c) == c

\* VirtualMachine.enter
enter(c) ==
    [c EXCEPT !.vm.return_stack = Push(@, c.vm.ip), !.vm.ip = IntV(0)]

\* A variant of exit that resets IP instead of restoring it.
vm_exit_resets(c) ==
    IF Len(c.vm.return_stack) = 0 THEN Raise(c, "IndexError")
    ELSE Ok([c EXCEPT !.vm.ip = IntV(0), !.vm.return_stack = Pop(@)])

\* VirtualMachine.exit: deque.pop raises IndexError on an empty stack.
vm_exit(c) ==
    IF Len(c.vm.return_stack) = 0 THEN Raise(c, "IndexError")
    ELSE Ok([c EXCEPT !.vm.ip = Top(c.vm.return_stack),
                      !.vm.return_stack = Pop(@)])

\* A variant of insert_word that reuses the word object bound to the name.
insert_word_in_place(c, word) ==
    IF word.symbol \in DOMAIN c.vm.dictionary
    THEN LET id == c.vm.dictionary[word.symbol]
         IN [vm |-> [c.vm EXCEPT !.last_word = id],
             words |-> [c.words EXCEPT ![id] = word]]
    ELSE LET id == Len(c.words) + 1
         IN [vm |-> [c.vm EXCEPT !.dictionary =
                         [s \in DOMAIN @ \cup {word.symbol} |->
                             IF s = word.symbol THEN id ELSE @[s]],
                                 !.last_word = id],
             words |-> Append(c.words, word)]

\* VirtualMachine.insert_word, on a word object just constructed.
insert_word(c, word) ==
    LET id == Len(c.words) + 1
    IN [vm |-> [c.vm EXCEPT !.dictionary =
                    [s \in DOMAIN @ \cup {word.symbol} |->
                        IF s = word.symbol THEN id ELSE @[s]],
                            !.last_word = id],
        words |-> Append(c.words, word)]

\* VirtualMachine.next_compiled_instr: [exc, op].  The IndexError of an
\* empty frame stack or of the index becomes a VmRuntimeError; `self.ip+1`
\* on a word object is a TypeError.
next_compiled_instr(c) ==
    IF Len(c.vm.frame_stack) = 0 THEN [exc |-> "VmRuntimeError", op |-> IntV(0)]
    ELSE IF ~IsNum(c.vm.ip) THEN [exc |-> "TypeError", op |-> IntV(0)]
    ELSE LET code == c.words[Top(c.vm.frame_stack)].code
         IN IF PyIndexOK(code, Num(c.vm.ip) + 1)
            THEN [exc |-> "", op |-> PyGet(code, Num(c.vm.ip) + 1)]
            ELSE [exc |-> "VmRuntimeError", op |-> IntV(0)]

\* VirtualMachine.next_symbol: [exc, word, c]
next_symbol(c) ==
    LET nw == NextWord(c.vm.stream)
        c1 == [c EXCEPT !.vm.stream = nw.st]
    IN [exc |-> IF nw.eof THEN "VmRuntimeError" ELSE "", word |-> nw.word, c |-> c1]

\* A variant of parse_symbol that looks in the dictionary first.
parse_symbol_dictionary_first(vm, symb) ==
    IF symb \in DOMAIN vm.dictionary
    THEN [exc |-> "", op |-> WordV(vm.dictionary[symb])]
    ELSE IF is_numeric_literal(symb)
         THEN [exc |-> "", op |-> convert_numeric_literal(symb)]
         ELSE [exc |-> "VmRuntimeError", op |-> IntV(0)]

\* VirtualMachine.parse_symbol: [exc, op]
parse_symbol(vm, symb) ==
    IF is_numeric_literal(symb) THEN [exc |-> "", op |-> convert_numeric_literal(symb)]
    ELSE IF symb \in DOMAIN vm.dictionary
         THEN [exc |-> "", op |-> WordV(vm.dictionary[symb])]
         ELSE [exc |-> "VmRuntimeError", op |-> IntV(0)]

\* `vm.ip += 1` (and `+= k`): a TypeError when IP holds a word object.
AddIp(c, k) ==
    IF IsNum(c.vm.ip) THEN Ok([c EXCEPT !.vm.ip = IntV(Num(c.vm.ip) + k)])
    ELSE Raise(c, "TypeError")

\* A variant of compile that puts the op in front of the code vector.
compile_front(c, op) ==
    LET r == AddIp(c, 1)
    IN IF r.exc # "" THEN r
       ELSE IF r.vm.last_word = 0 THEN Raise(Ctx(r), "AttributeError")
       ELSE Ok([Ctx(r) EXCEPT !.words[r.vm.last_word].code = <<op>> \o @])

\* A variant of compile whose snapshot shares the code vectors of the words.
compile_shared(c, op) ==
    LET r == AddIp(c, 1)
        lw == r.vm.last_word
    IN IF r.exc # "" THEN r
       ELSE IF lw = 0 THEN Raise(Ctx(r), "AttributeError")
       ELSE Ok([Ctx(r) EXCEPT
                  !.words[lw].code = Append(@, op),
                  !.vm.backup = IF @ # <<>> /\ lw <= Len(@[1].words)
                                THEN <<[@[1] EXCEPT !.words[lw].code = Append(@, op)]>>
                                ELSE @])

\* VirtualMachine.compile: IP is advanced before the append, which raises
\* AttributeError when last_word is None.
compile(c, op) ==
    LET r == AddIp(c, 1)
    IN IF r.exc # "" THEN r
       ELSE IF r.vm.last_word = 0 THEN Raise(Ctx(r), "AttributeError")
       ELSE Ok([Ctx(r) EXCEPT !.words[r.vm.last_word].code = Append(@, op)])

\* ------------------------------------------------------------- primitives

\* Stack.binary_op on the data stack: IndexError of either pop becomes a
\* VmRuntimeError, after the pops that succeeded; the host operator raises
\* TypeError on a word object.
binary_op(c, kind) ==
    LET s == c.vm.stack
    IN IF Len(s) = 0 THEN Raise(c, "VmRuntimeError")
       ELSE IF Len(s) = 1 THEN Raise([c EXCEPT !.vm.stack = <<>>], "VmRuntimeError")
       ELSE LET v1 == s[Len(s)]
                v2 == s[Len(s) - 1]
                c2 == [c EXCEPT !.vm.stack = SubSeq(s, 1, Len(s) - 2)]
            IN IF ~(IsNum(v1) /\ IsNum(v2)) THEN Raise(c2, "TypeError")
               ELSE Ok([c2 EXCEPT !.vm.stack = Push(@,
                        IF kind = "add" THEN IntV(Num(v2) + Num(v1))
                        ELSE IntV(Num(v2) * Num(v1)))])

\* neg: Stack.unary_op(operator.neg)
neg(c) ==
    LET s == c.vm.stack
    IN IF Len(s) = 0 THEN Raise(c, "VmRuntimeError")
       ELSE IF ~IsNum(Top(s)) THEN Raise(c, "TypeError")
       ELSE Ok([c EXCEPT !.vm.stack[Len(s)] = IntV(0 - Num(Top(s)))])

add(c) == binary_op(c, "add")
mul(c) == binary_op(c, "mul")

\* 0=: `vm.stack.push(vm.stack.top == 0)`; a word object equals no number.
zero_eq(c) ==
    LET s == c.vm.stack
    IN IF Len(s) = 0 THEN Raise(c, "IndexError")
       ELSE Ok([c EXCEPT !.vm.stack = Push(s, BoolV(IsNum(Top(s)) /\ Num(Top(s)) = 0))])

\* 0<>
zero_ne(c) ==
    LET s == c.vm.stack
    IN IF Len(s) = 0 THEN Raise(c, "IndexError")
       ELSE Ok([c EXCEPT !.vm.stack = Push(s, BoolV(~(IsNum(Top(s)) /\ Num(Top(s)) = 0)))])

\* A variant of 0< that replaces the value it tests.
zero_lt_consuming(c) ==
    LET s == c.vm.stack
    IN IF Len(s) = 0 THEN Raise(c, "IndexError")
       ELSE IF ~IsNum(Top(s)) THEN Raise(c, "TypeError")
       ELSE Ok([c EXCEPT !.vm.stack = Push(Pop(s), BoolV(Num(Top(s)) < 0))])

\* 0<: the order comparison of a word object with 0 is a TypeError.
zero_lt(c) ==
    LET s == c.vm.stack
    IN IF Len(s) = 0 THEN Raise(c, "IndexError")
       ELSE IF ~IsNum(Top(s)) THEN Raise(c, "TypeError")
       ELSE Ok([c EXCEPT !.vm.stack = Push(s, BoolV(Num(Top(s)) < 0))])

\* 0>
zero_gt(c) ==
    LET s == c.vm.stack
    IN IF Len(s) = 0 THEN Raise(c, "IndexError")
       ELSE IF ~IsNum(Top(s)) THEN Raise(c, "TypeError")
       ELSE Ok([c EXCEPT !.vm.stack = Push(s, BoolV(Num(Top(s)) > 0))])

\* 1=
one_eq(c) ==
    LET s == c.vm.stack
    IN IF Len(s) = 0 THEN Raise(c, "IndexError")
       ELSE Ok([c EXCEPT !.vm.stack = Push(s, BoolV(IsNum(Top(s)) /\ Num(Top(s)) = 1))])

drop(c) ==
    IF Len(c.vm.stack) = 0 THEN Raise(c, "IndexError")
    ELSE Ok([c EXCEPT !.vm.stack = Pop(@)])

swap(c) ==
    LET s == c.vm.stack
        n == Len(s)
    IN IF n < 2 THEN Raise(c, "IndexError")
       ELSE Ok([c EXCEPT !.vm.stack = [s EXCEPT ![n - 1] = s[n], ![n] = s[n - 1]]])

dup(c) ==
    IF Len(c.vm.stack) = 0 THEN Raise(c, "IndexError")
    ELSE Ok([c EXCEPT !.vm.stack = Push(@, Top(@))])

\* A variant of rot that turns the three top elements the other way.
rot_other_way(c) ==
    LET s == c.vm.stack
        n == Len(s)
    IN IF n < 3 THEN Raise(c, "IndexError")
       ELSE Ok([c EXCEPT !.vm.stack =
                  [s EXCEPT ![n - 2] = s[n], ![n - 1] = s[n - 2], ![n] = s[n - 1]]])

\* rot: `ds[-3], ds[-2], ds[-1] = ds[-2], ds[-1], ds[-3]`
rot(c) ==
    LET s == c.vm.stack
        n == Len(s)
    IN IF n < 3 THEN Raise(c, "IndexError")
       ELSE Ok([c EXCEPT !.vm.stack =
                  [s EXCEPT ![n - 2] = s[n - 1], ![n - 1] = s[n], ![n] = s[n - 2]]])

\* -rot: `ds[-3], ds[-2], ds[-1] = ds[-1], ds[-3], ds[-2]`
mrot(c) ==
    LET s == c.vm.stack
        n == Len(s)
    IN IF n < 3 THEN Raise(c, "IndexError")
       ELSE Ok([c EXCEPT !.vm.stack =
                  [s EXCEPT ![n - 2] = s[n], ![n - 1] = s[n - 2], ![n] = s[n - 1]]])

\* >r
rpush(c) ==
    IF Len(c.vm.stack) = 0 THEN Raise(c, "IndexError")
    ELSE Ok([c EXCEPT !.vm.return_stack = Push(@, Top(c.vm.stack)),
                      !.vm.stack = Pop(@)])

\* r>
rpop(c) ==
    IF Len(c.vm.return_stack) = 0 THEN Raise(c, "IndexError")
    ELSE Ok([c EXCEPT !.vm.stack = Push(@, Top(c.vm.return_stack)),
                      !.vm.return_stack = Pop(@)])

rdrop(c) ==
    IF Len(c.vm.return_stack) = 0 THEN Raise(c, "IndexError")
    ELSE Ok([c EXCEPT !.vm.return_stack = Pop(@)])

\* `vm.return_stack.top += k`
RTopAdd(c, k) ==
    LET rs == c.vm.return_stack
    IN IF Len(rs) = 0 THEN Raise(c, "IndexError")
       ELSE IF ~IsNum(Top(rs)) THEN Raise(c, "TypeError")
       ELSE Ok([c EXCEPT !.vm.return_stack[Len(rs)] = IntV(Num(Top(rs)) + k)])

\* r+
rplus(c) == RTopAdd(c, 1)

\* r-: the second function named rplus in the file.
rminus(c) == RTopAdd(c, -1)

\* i
eye(c) ==
    IF Len(c.vm.return_stack) = 0 THEN Raise(c, "IndexError")
    ELSE Ok([c EXCEPT !.vm.stack = Push(@, Top(c.vm.return_stack))])

\* exit
exit(c) ==
    IF Len(c.vm.return_stack) = 0 THEN Raise(c, "VmRuntimeError")
    ELSE Raise(c, "WordExit")

\* `self.heap[adr] = v`
HeapPut(heap, adr, v) ==
    [k \in DOMAIN heap \cup {Key(adr)} |-> IF k = Key(adr) THEN v ELSE heap[k]]

\* str.strip(): the text without its leading and trailing whitespace.
RECURSIVE Strip(_)
Strip(text) ==
    IF Len(text) = 0 THEN text
    ELSE IF text[1] \in Whitespace THEN Strip(Tail(text))
    ELSE IF text[Len(text)] \in Whitespace THEN Strip(SubSeq(text, 1, Len(text) - 1))
    ELSE text

\* textwrap.indent(textwrap.dedent(text), "  ") of a text of one line: the
\* leading blanks and tabs go, a line of whitespace only becomes empty, and
\* a line that is not empty gets the prefix.
RECURSIVE Dedent(_)
Dedent(text) ==
    IF Len(text) = 0 THEN text
    ELSE IF text[1] \in {" ", "\t"} THEN Dedent(Tail(text))
    ELSE text
Pretty(text) == IF Strip(text) = <<>> THEN Dedent(text) ELSE <<" ", " ">> \o Dedent(text)

\* accum_until: [exc, text, c].  Characters are read up to and including
\* the first occurrence of the sentinel, or up to the end of the stream,
\* where StopIteration ends the loop like the sentinel does; then
\* len(sentinel)-1 characters are popped from the end of what was read
\* (IndexError of deque.pop when fewer were read).
accum_until(c, sentinel) ==
    LET st == c.vm.stream
        rest == SubSeq(st.buf, st.pos + 1, Len(st.buf))
        n == Len(sentinel)
        ends == {j \in n..Len(rest) : SubSeq(rest, j - n + 1, j) = sentinel}
        found == ends # {}
        j == IF found THEN CHOOSE x \in ends : \A y \in ends : x <= y ELSE Len(rest)
        accum == IF found THEN SubSeq(rest, 1, j - 1) ELSE rest
        c1 == [c EXCEPT !.vm.stream.pos = st.pos + j]
    IN IF Len(accum) < n - 1 THEN [exc |-> "IndexError", text |-> <<>>, c |-> c1]
       ELSE [exc |-> "", text |-> SubSeq(accum, 1, Len(accum) - (n - 1)), c |-> c1]

\* (: the text is the stack effect of last_word when that has no code and
\* no stack effect yet; the AttributeError of last_word = None is passed.
paired_comment(c) ==
    LET a == accum_until(c, <<")">>)
        lw == a.c.vm.last_word
    IN IF a.exc # "" THEN Raise(a.c, a.exc)
       ELSE IF lw = 0 THEN Ok(a.c)
       ELSE IF a.c.words[lw].code = <<>> /\ a.c.words[lw].stack_effect = <<>>
       THEN Ok([a.c EXCEPT !.words[lw].stack_effect =
                    << <<"(", " ">> \o Strip(a.text) \o <<" ", ")">> >>])
       ELSE Ok(a.c)

\* ("
doc_comment(c) ==
    LET a == accum_until(c, <<"\"", ")">>)
        lw == a.c.vm.last_word
    IN IF a.exc # "" THEN Raise(a.c, a.exc)
       ELSE IF lw # 0 /\ Len(a.c.vm.return_stack) > 0
       THEN Ok([a.c EXCEPT !.words[lw].doc = <<Pretty(a.text)>>])
       ELSE Raise(a.c, "VmRuntimeError")

\* A variant of ! that takes its operands in the other order.
bang_swapped(c) ==
    LET s == c.vm.stack
    IN IF Len(s) = 0 THEN Raise(c, "IndexError")
       ELSE IF Len(s) = 1 THEN Raise([c EXCEPT !.vm.stack = <<>>], "IndexError")
       ELSE Ok([c EXCEPT !.vm.stack = SubSeq(s, 1, Len(s) - 2),
                         !.vm.heap = HeapPut(@, s[Len(s) - 1], s[Len(s)])])

\* !
bang(c) ==
    LET s == c.vm.stack
    IN IF Len(s) = 0 THEN Raise(c, "IndexError")
       ELSE IF Len(s) = 1 THEN Raise([c EXCEPT !.vm.stack = <<>>], "IndexError")
       ELSE Ok([c EXCEPT !.vm.stack = SubSeq(s, 1, Len(s) - 2),
                         !.vm.heap = HeapPut(@, s[Len(s)], s[Len(s) - 1])])

\* A variant of w! that inserts the value in front of the slot.
word_bang_inserts(c) ==
    LET s == c.vm.stack
        lw == c.vm.last_word
    IN IF Len(s) = 0 THEN Raise(c, "IndexError")
       ELSE IF Len(s) = 1 THEN Raise([c EXCEPT !.vm.stack = <<>>], "IndexError")
       ELSE LET adr == s[Len(s)]
                v == s[Len(s) - 1]
                c1 == [c EXCEPT !.vm.stack = SubSeq(s, 1, Len(s) - 2)]
            IN IF lw = 0 THEN Raise(c1, "AttributeError")
               ELSE IF ~IsNum(adr) THEN Raise(c1, "TypeError")
               ELSE IF ~PyIndexOK(c.words[lw].code, Num(adr)) THEN Raise(c1, "VmRuntimeError")
               ELSE LET code == c.words[lw].code
                        i == IF Num(adr) >= 0 THEN Num(adr) ELSE Len(code) + Num(adr)
                    IN Ok([c1 EXCEPT !.words[lw].code =
                              SubSeq(code, 1, i) \o <<v>> \o SubSeq(code, i + 1, Len(code))])

\* w!: `vm.last_word.code[adr] = v`; the IndexError of the index becomes a
\* VmRuntimeError, a word object as index is a TypeError.
word_bang(c) ==
    LET s == c.vm.stack
        lw == c.vm.last_word
    IN IF Len(s) = 0 THEN Raise(c, "IndexError")
       ELSE IF Len(s) = 1 THEN Raise([c EXCEPT !.vm.stack = <<>>], "IndexError")
       ELSE LET adr == s[Len(s)]
                v == s[Len(s) - 1]
                c1 == [c EXCEPT !.vm.stack = SubSeq(s, 1, Len(s) - 2)]
            IN IF lw = 0 THEN Raise(c1, "AttributeError")
               ELSE IF ~IsNum(adr) THEN Raise(c1, "TypeError")
               ELSE IF ~PyIndexOK(c.words[lw].code, Num(adr)) THEN Raise(c1, "VmRuntimeError")
               ELSE Ok([c1 EXCEPT !.words[lw].code = PySet(@, Num(adr), v)])

\* A variant of +! that stores the delta over the cell.
plus_bang_stores(c) == bang(c)

\* +!: `vm.heap[adr] += v`, and `vm.heap[adr] = v` on KeyError; the sum of
\* a word object is a TypeError.
plus_bang(c) ==
    LET s == c.vm.stack
    IN IF Len(s) = 0 THEN Raise(c, "IndexError")
       ELSE IF Len(s) = 1 THEN Raise([c EXCEPT !.vm.stack = <<>>], "IndexError")
       ELSE LET adr == s[Len(s)]
                v == s[Len(s) - 1]
                c1 == [c EXCEPT !.vm.stack = SubSeq(s, 1, Len(s) - 2)]
            IN IF Key(adr) \notin DOMAIN c.vm.heap
               THEN Ok([c1 EXCEPT !.vm.heap = HeapPut(@, adr, v)])
               ELSE IF ~(IsNum(c.vm.heap[Key(adr)]) /\ IsNum(v)) THEN Raise(c1, "TypeError")
               ELSE Ok([c1 EXCEPT !.vm.heap =
                            HeapPut(@, adr, IntV(Num(c.vm.heap[Key(adr)]) + Num(v)))])

\* @
at(c) ==
    LET s == c.vm.stack
    IN IF Len(s) = 0 THEN Raise(c, "IndexError")
       ELSE IF Key(Top(s)) \notin DOMAIN c.vm.heap
            THEN Raise([c EXCEPT !.vm.stack = Pop(s)], "VmRuntimeError")
            ELSE Ok([c EXCEPT !.vm.stack = Push(Pop(s), c.vm.heap[Key(Top(s))])])

\* immediate
immediate(c) ==
    IF c.vm.last_word = 0 THEN Raise(c, "AttributeError")
    ELSE Ok([c EXCEPT !.words[c.vm.last_word].immediate = TRUE])

\* A variant of branch that takes the offset from the slot IP points at.
branch_reads_here(c) ==
    LET c0 == [c EXCEPT !.vm.ip = IF IsNum(@) THEN IntV(Num(@) - 1) ELSE @]
        nx == next_compiled_instr(c0)
    IN IF nx.exc # "" THEN Raise(c, nx.exc)
       ELSE IF ~IsNum(nx.op) THEN Raise(c, "TypeError")
       ELSE AddIp(c, Num(nx.op) + 1)

\* branch: `vm.ip += offset + 1`
branch(c) ==
    LET nx == next_compiled_instr(c)
    IN IF nx.exc # "" THEN Raise(c, nx.exc)
       ELSE IF ~IsNum(nx.op) THEN Raise(c, "TypeError")
       ELSE AddIp(c, Num(nx.op) + 1)

\* A variant of 0branch that tests the top without popping it.
zbranch_keeps(c) ==
    IF Len(c.vm.stack) = 0 THEN Raise(c, "IndexError")
    ELSE IF ~Truthy(Top(c.vm.stack)) THEN branch(c) ELSE AddIp(c, 1)

\* 0branch
zbranch(c) ==
    IF Len(c.vm.stack) = 0 THEN Raise(c, "IndexError")
    ELSE LET c1 == [c EXCEPT !.vm.stack = Pop(@)]
         IN IF ~Truthy(Top(c.vm.stack)) THEN branch(c1) ELSE AddIp(c1, 1)

\* [
lbrac(c) == Ok([c EXCEPT !.vm.immediate = TRUE])

\* ]
rbrac(c) == Ok([c EXCEPT !.vm.immediate = FALSE])

\* '
interp_tick(c) ==
    LET ns == next_symbol(c)
        ps == parse_symbol(ns.c.vm, ns.word)
    IN IF ns.exc # "" THEN Raise(ns.c, ns.exc)
       ELSE IF ps.exc # "" THEN Raise(ns.c, ps.exc)
       ELSE Ok([ns.c EXCEPT !.vm.stack = Push(@, ps.op)])

\* does>
does(c) ==
    IF Len(c.vm.frame_stack) = 0 THEN Raise(c, "IndexError")
    ELSE IF ~IsNum(c.vm.ip) THEN Raise(c, "TypeError")
    ELSE IF c.vm.last_word = 0 THEN Raise(c, "AttributeError")
    ELSE LET ops == PyTail(c.words[Top(c.vm.frame_stack)].code, Num(c.vm.ip) + 1)
         IN Raise([c EXCEPT !.words[c.vm.last_word].code = @ \o ops], "WordExit")

\* A variant of , that drops the value it pops.
comma_discards(c) ==
    IF Len(c.vm.stack) = 0 THEN Raise(c, "IndexError")
    ELSE LET c1 == [c EXCEPT !.vm.stack = Pop(@)]
         IN IF c.vm.last_word = 0 THEN Raise(c1, "AttributeError") ELSE Ok(c1)

\* ,
comma(c) ==
    IF Len(c.vm.stack) = 0 THEN Raise(c, "IndexError")
    ELSE LET c1 == [c EXCEPT !.vm.stack = Pop(@)]
         IN IF c.vm.last_word = 0 THEN Raise(c1, "AttributeError")
            ELSE Ok([c1 EXCEPT !.words[c.vm.last_word].code = Append(@, Top(c.vm.stack))])

\* create
create(c) ==
    LET ns == next_symbol(c)
    IN IF ns.exc # "" THEN Raise(ns.c, ns.exc)
       ELSE Ok(insert_word(ns.c, DefinedWord(ns.word)))

\* :
colon(c) ==
    LET r == create(c)
    IN IF r.exc # "" THEN r
       ELSE LET c1 == [Ctx(r) EXCEPT
                        !.words[r.vm.last_word].text_location = r.vm.stream.last_word_start]
            IN Ok([enter(c1) EXCEPT !.vm.immediate = FALSE])

\* A variant of ; that leaves the mode flag alone.
semicolon_keeps_mode(c) == vm_exit(c)

\* ;
semicolon(c) ==
    LET r == vm_exit(c)
    IN IF r.exc # "" THEN r ELSE Ok([Ctx(r) EXCEPT !.vm.immediate = TRUE])

\* hidden
hidden(c) ==
    IF c.vm.last_word = 0 THEN Raise(c, "AttributeError")
    ELSE Ok([c EXCEPT !.words[c.vm.last_word].hidden = TRUE])

\* ------------------------------------------------------------ module files

\* A text from its symbols, one space between two.
RECURSIVE Text(_)
Text(toks) ==
    IF Len(toks) = 0 THEN <<>>
    ELSE IF Len(toks) = 1 THEN toks[1]
    ELSE toks[1] \o <<" ">> \o Text(Tail(toks))

n_pub == <<"p", "u", "b">>
n_priv == <<"p", "r", "i", "v">>
n_other == <<"o", "t", "h">>
lit(d) == <<d>>
Suffix == <<".", "s", "l", "o", "t", "h">>

\* m.sloth: one public word, one hidden word.
ModM == Text(<<sym_colon, n_pub, lit("1"), sym_semicolon,
               sym_colon, n_priv, lit("2"), sym_semicolon, sym_hidden>>)
\* r.sloth: a name defined twice, the second definition hidden, and a
\* public word; the module also leaves a value on its stack and a cell in
\* its heap.
ModR == Text(<<sym_colon, lit("a"), lit("1"), sym_semicolon,
               sym_colon, lit("a"), lit("2"), sym_semicolon, sym_hidden,
               sym_colon, lit("s"), lit("4"), sym_semicolon,
               lit("3"), lit("5"), lit("7"), sym_bang>>)
\* n.sloth: imports m and defines a word that calls m's public word.
ModN == Text(<<sym_import, <<"m">>, sym_colon, <<"q">>, n_pub, sym_semicolon>>)
\* b.sloth: fails while it runs.
ModB == Text(<<lit("1"), sym_drop, sym_drop>>)
\* The m.sloth of the packaged lib directory, shadowed by the one above.
ModM2 == Text(<<sym_colon, n_other, lit("3"), sym_semicolon>>)

\* The directories of system_path in search order (working directory,
\* configured library directory, packaged lib), each a map from file name
\* to contents.
Dir(names, texts) ==
    [f \in {names[i] \o Suffix : i \in 1..Len(names)} |->
        texts[CHOOSE i \in 1..Len(names) : names[i] \o Suffix = f]]
system_path ==
    << Dir(<< <<"m">> >>, <<ModM>>),
       Dir(<< <<"r">>, <<"n">> >>, <<ModR, ModN>>),
       Dir(<< <<"m">>, <<"b">> >>, <<ModM2, ModB>>) >>

\* VirtualMachine.import_module, lines 191-205: the first directory of
\* system_path that holds the file wins; imp carries the file's text for the
\* sub-machine.
import_find(c, modname) ==
    LET file == modname \o Suffix
        hits == {i \in 1..Len(system_path) : file \in DOMAIN system_path[i]}
    IN IF hits = {} THEN Raise(c, "VmRuntimeError")
       ELSE LET first == CHOOSE i \in hits : \A j \in hits : i <= j
            IN [Ok(c) EXCEPT !.imp = <<system_path[first][file]>>]

\* A variant of the publication that does not test the hidden flag.
import_publish_all(vm, mod_vm, ws) ==
    LET public_words == {k \in DOMAIN mod_vm.dictionary :
                            ~ws[mod_vm.dictionary[k]].builtin}
    IN [vm EXCEPT !.dictionary =
            [k \in DOMAIN @ \cup public_words |->
                IF k \in public_words THEN mod_vm.dictionary[k] ELSE @[k]]]

\* A variant of the publication that also takes over the module's last_word.
import_publish_last(vm, mod_vm, ws) ==
    LET public_words == {k \in DOMAIN mod_vm.dictionary :
                            /\ ~ws[mod_vm.dictionary[k]].builtin
                            /\ ~ws[mod_vm.dictionary[k]].hidden}
    IN [vm EXCEPT !.dictionary =
            [k \in DOMAIN @ \cup public_words |->
                IF k \in public_words THEN mod_vm.dictionary[k] ELSE @[k]],
                  !.last_word = mod_vm.last_word]

\* VirtualMachine.import_module, lines 208-212: the entries of the
\* sub-machine's dictionary whose word has a hidden attribute that is false
\* overwrite the importer's.
import_publish(vm, mod_vm, ws) ==
    LET public_words == {k \in DOMAIN mod_vm.dictionary :
                            /\ ~ws[mod_vm.dictionary[k]].builtin
                            /\ ~ws[mod_vm.dictionary[k]].hidden}
    IN [vm EXCEPT !.dictionary =
            [k \in DOMAIN @ \cup public_words |->
                IF k \in public_words THEN mod_vm.dictionary[k] ELSE @[k]]]

\* import (the primitive)
import_module(c) ==
    LET ns == next_symbol(c)
    IN IF ns.exc # "" THEN Raise(ns.c, ns.exc) ELSE import_find(ns.c, ns.word)

\* ---------------------------------------------------------------- dispatch

\* BuiltinWord.__call__: self.func(vm)
BuiltinWord_call(c, func) ==
    CASE func = "neg" -> neg(c)
      [] func = "add" -> add(c)
      [] func = "mul" -> mul(c)
      [] func = "zero_eq" -> zero_eq(c)
      [] func = "zero_ne" -> zero_ne(c)
      [] func = "zero_lt" -> zero_lt(c)
      [] func = "zero_gt" -> zero_gt(c)
      [] func = "one_eq" -> one_eq(c)
      [] func = "drop" -> drop(c)
      [] func = "swap" -> swap(c)
      [] func = "dup" -> dup(c)
      [] func = "rot" -> rot(c)
      [] func = "mrot" -> mrot(c)
      [] func = "rpush" -> rpush(c)
      [] func = "rpop" -> rpop(c)
      [] func = "rdrop" -> rdrop(c)
      [] func = "rplus" -> rplus(c)
      [] func = "rminus" -> rminus(c)
      [] func = "eye" -> eye(c)
      [] func = "exit" -> exit(c)
      [] func = "paired_comment" -> paired_comment(c)
      [] func = "doc_comment" -> doc_comment(c)
      [] func = "bang" -> bang(c)
      [] func = "word_bang" -> word_bang(c)
      [] func = "plus_bang" -> plus_bang(c)
      [] func = "at" -> at(c)
      [] func = "immediate" -> immediate(c)
      [] func = "branch" -> branch(c)
      [] func = "zbranch" -> zbranch(c)
      [] func = "lbrac" -> lbrac(c)
      [] func = "rbrac" -> rbrac(c)
      [] func = "interp_tick" -> interp_tick(c)
      [] func = "does" -> does(c)
      [] func = "comma" -> comma(c)
      [] func = "create" -> create(c)
      [] func = "colon" -> colon(c)
      [] func = "semicolon" -> semicolon(c)
      [] func = "hidden" -> hidden(c)
      [] func = "import_module" -> import_module(c)

\* DefinedWord.__call__, lines 45-46: the word is pushed on the frame stack
\* and entered; the loop of lines 47-53 runs in the steps that follow.
DefinedWord_call(c, w) ==
    [Ok(enter([c EXCEPT !.vm.frame_stack = Push(@, w)])) EXCEPT !.call = w]

\* VirtualMachine.handle_op
handle_op(c, op) ==
    IF Callable(op)
    THEN IF c.words[op.w].builtin
         THEN BuiltinWord_call(c, c.words[op.w].func)
         ELSE DefinedWord_call(c, op.w)
    ELSE Ok([c EXCEPT !.vm.stack = Push(@, op)])

\* A variant of the dispatch that never looks at a word's immediate flag.
Dispatch_no_immediate(c, op) ==
    IF c.vm.immediate THEN handle_op(c, op) ELSE compile(c, op)

\* The body of the loop of VirtualMachine.run, lines 179-184.
Dispatch(c, op) ==
    IF c.vm.immediate THEN handle_op(c, op)
    ELSE IF Callable(op) /\ c.words[op.w].immediate THEN handle_op(c, op)
    ELSE compile(c, op)

\* The loop of VirtualMachine.run in Interpret mode over the symbols toks,
\* none of which names a defined word: each is resolved and handed to
\* handle_op, and the first exception leaves the loop.
RECURSIVE run_immediate(_, _)
run_immediate(c, toks) ==
    IF toks = <<>> THEN Ok(c)
    ELSE LET p == parse_symbol(c.vm, Head(toks))
         IN IF p.exc # "" THEN Raise(c, p.exc)
            ELSE LET r == handle_op(c, p.op)
                 IN IF r.exc # "" THEN r ELSE run_immediate(Ctx(r), Tail(toks))

\* VirtualMachine.read_input
read_input(c, text) ==
    LET c1 == make_backup(c)
    IN [c1 EXCEPT !.vm.stream = Write(@, text)]

\* ------------------------------------------------------------ input lines

n_undef == <<"u", "n", "d", "e", "f">>
n_mk == <<"m", "k">>
n_im == <<"i", "m">>
n_greet == <<"g", "r", "e", "e", "t">>
n_abs == <<"a", "b", "s", "?">>
n_square == <<"s", "q", "u", "a", "r", "e">>

\* `9`
L_nine == Text(<<lit("9")>>)
\* `5 undef 7`: an undefined symbol in the middle of the line
L_err == Text(<<lit("5"), n_undef, lit("7")>>)
\* `: w 1 exit 2 ; : v w 4 ; v 3`
L_exit == Text(<<sym_colon, lit("w"), lit("1"), sym_exit, lit("2"), sym_semicolon,
                 sym_colon, lit("v"), lit("w"), lit("4"), sym_semicolon,
                 lit("v"), lit("3")>>)
\* `: mk create does> 7 ; mk k k`
L_does == Text(<<sym_colon, n_mk, sym_create, sym_does, lit("7"), sym_semicolon,
                 n_mk, lit("k"), lit("k")>>)
\* `import m pub`
L_imp_m == Text(<<sym_import, lit("m"), n_pub>>)
\* `priv`
L_priv == Text(<<n_priv>>)
\* `import r s a`
L_imp_r == Text(<<sym_import, lit("r"), lit("s"), lit("a")>>)
\* `import n q`
L_imp_n == Text(<<sym_import, lit("n"), lit("q")>>)
\* `import b`
L_imp_b == Text(<<sym_import, lit("b")>>)
\* `import z`: no such module
L_imp_z == Text(<<sym_import, lit("z")>>)
\* `: greet [ 41 1 + ] , ; greet`
L_greet == Text(<<sym_colon, n_greet, sym_lbrac, <<"4", "1">>, lit("1"), sym_add,
                  sym_rbrac, sym_comma, sym_semicolon, n_greet>>)
\* `: h [ 2 ;`
L_open == Text(<<sym_colon, lit("h"), sym_lbrac, lit("2"), sym_semicolon>>)
\* `] 5`
L_rbrac == Text(<<sym_rbrac, lit("5")>>)
\* `: a 1 ; : b a a ; : c b 2 ; c`
L_nest == Text(<<sym_colon, lit("a"), lit("1"), sym_semicolon,
                 sym_colon, lit("b"), lit("a"), lit("a"), sym_semicolon,
                 sym_colon, lit("c"), lit("b"), lit("2"), sym_semicolon, lit("c")>>)
\* `: d 7 >r ; d`
L_unbal == Text(<<sym_colon, lit("d"), lit("7"), sym_rpush, sym_semicolon, lit("d")>>)
\* `: e 4 >r i r> + ; e`
L_bal == Text(<<sym_colon, lit("e"), lit("4"), sym_rpush, sym_eye, sym_rpop, sym_add,
                sym_semicolon, lit("e")>>)
\* `: x [ 5 >r ] ;`
L_semi == Text(<<sym_colon, lit("x"), sym_lbrac, lit("5"), sym_rpush, sym_rbrac,
                 sym_semicolon>>)
\* `: y <op> ; y` for a return-stack primitive
L_rop(op) == Text(<<sym_colon, lit("y"), op, sym_semicolon, lit("y")>>)
\* `<v> <a> ! <a> @`
L_heap(v, a) == Text(<<v, a, sym_bang, a, sym_at>>)
\* `: im 1 ; immediate : u im ;`
L_imm == Text(<<sym_colon, n_im, lit("1"), sym_semicolon, sym_immediate,
                sym_colon, lit("u"), n_im, sym_semicolon>>)
\* `: t [ ' dup , ] ; 2 t`
L_tick == Text(<<sym_colon, lit("t"), sym_lbrac, sym_tick, sym_dup, sym_comma,
                 sym_rbrac, sym_semicolon, lit("2"), lit("t")>>)

\* `: x [ ' dup >r ] ; ] 5`: `;` loads a word object into IP
L_wip == Text(<<sym_colon, lit("x"), sym_lbrac, sym_tick, sym_dup, sym_rpush, sym_rbrac,
                sym_semicolon, sym_rbrac, lit("5")>>)

\* `: a 1 ; : b a ; : a 2 ; a b`
L_redef == Text(<<sym_colon, lit("a"), lit("1"), sym_semicolon,
                  sym_colon, lit("b"), lit("a"), sym_semicolon,
                  sym_colon, lit("a"), lit("2"), sym_semicolon, lit("a"), lit("b")>>)
\* `: x 5 ;`
L_x == Text(<<sym_colon, lit("x"), lit("5"), sym_semicolon>>)
\* `0 x ! 3 x +! 4 x +! x @`
L_accum == Text(<<lit("0"), lit("x"), sym_bang, lit("3"), lit("x"), <<"+", "!">>,
                  lit("4"), lit("x"), <<"+", "!">>, lit("x"), sym_at>>)
\* `: abs? dup 0< 0branch 2 neg ; -7 abs?`
L_abs == Text(<<sym_colon, n_abs, sym_dup, <<"0", "<">>,
                <<"0", "b", "r", "a", "n", "c", "h">>, lit("2"), sym_neg, sym_semicolon,
                <<"-", "7">>, n_abs>>)
\* `: square dup * ; 5 square`
L_square == Text(<<sym_colon, n_square, sym_dup, sym_mul, sym_semicolon,
                   lit("5"), n_square>>)
\* `: w 3 5 ! 5 @ 0= swap ; w`
L_w == Text(<<sym_colon, lit("w"), lit("3"), lit("5"), sym_bang, lit("5"), sym_at,
              <<"0", "=">>, sym_swap, sym_semicolon, lit("w")>>)
\* `: f ( a`: a comment that is not closed
L_paren == Text(<<sym_colon, lit("f"), <<"(">>, lit("a")>>)
\* `: f (" ab`: a docstring that is not closed
L_doc == Text(<<sym_colon, lit("f"), <<"(", "\"">>, <<"a", "b">>>>)
\* `5 >r exit`
L_top_exit == Text(<<lit("5"), sym_rpush, sym_exit>>)
\* `: j 0 0branch 1 5 6 branch -1 ; j`
L_jump == Text(<<sym_colon, lit("j"), lit("0"), <<"0", "b", "r", "a", "n", "c", "h">>,
                 lit("1"), lit("5"), lit("6"), <<"b", "r", "a", "n", "c", "h">>,
                 <<"-", "1">>, sym_semicolon, lit("j")>>)
\* `1 2 3 rot rot rot -rot swap swap dup drop`
L_shuffle == Text(<<lit("1"), lit("2"), lit("3"), <<"r", "o", "t">>, <<"r", "o", "t">>,
                    <<"r", "o", "t">>, <<"-", "r", "o", "t">>, sym_swap, sym_swap,
                    sym_dup, sym_drop>>)
\* `: n 0branch -3 5 ; 0 n`: a backward jump to an index below 0
L_back == Text(<<sym_colon, lit("n"), <<"0", "b", "r", "a", "n", "c", "h">>,
                 <<"-", "3">>, lit("5"), sym_semicolon, lit("0"), lit("n")>>)
\* `: 5 9 ; 7 0 w! 5`: a word under a numeric name, changed after its `;`
L_five == Text(<<sym_colon, lit("5"), lit("9"), sym_semicolon, lit("7"), lit("0"),
                 <<"w", "!">>, lit("5")>>)

\* The lines the prompt can return.
Lines ==
    {L_nine, L_err, L_exit, L_does, L_imp_m, L_priv, L_imp_r, L_imp_n, L_imp_b,
     L_imp_z, L_greet, L_open, L_rbrac, L_nest, L_unbal, L_bal, L_semi, L_imm, L_tick,
     L_wip, L_redef, L_x, L_accum, L_abs, L_square, L_w, L_paren, L_doc,
     L_top_exit, L_jump, L_shuffle, L_back, L_five}
    \cup {L_rop(op) : op \in {sym_rplus, sym_rminus, sym_rdrop}}
    \cup {L_heap(v, a) : v \in {lit("3"), <<"-", "2">>}, a \in {lit("5"), lit("0")}}

\* ------------------------------------------------------------------ state

VARIABLES
    vms,      \* the machines running, the read-eval loop's first, each
              \* sub-machine of an import in progress after its importer
    calls,    \* per machine: the activations of DefinedWord.__call__
    created,  \* per machine: the word objects its own code created (history)
    opened,   \* per machine: for each `:` not yet closed by `;`, the IP its
              \* enter saved and the return stack it left (history)
    words,    \* the word objects
    pc,       \* where the read-eval loop is
    exc,      \* the exception that left run(), "" for none
    source,   \* the line last read
    nlines    \* the number of lines read

vars == <<vms, calls, created, opened, words, pc, exc, source, nlines>>

\* The machine whose code runs and the objects it works on.
Depth == Len(vms)
cur == vms[Depth]
Cur == [vm |-> cur, words |-> words]

\* The exceptions the read-eval loop catches.
Caught == {"VmRuntimeError", "RuntimeError", "KeyError", "IndexError"}

\* repl, lines 116-117 (the standard library text is not part of the
\* source; the machine starts on the empty text).
Init ==
    /\ vms = <<VirtualMachine(<<>>, InitialWords)>>
    /\ calls = << <<>> >>
    /\ created = <<{}>>
    /\ opened = << <<>> >>
    /\ words = InitialWords
    /\ pc = "prompt"
    /\ exc = ""
    /\ source = <<>>
    /\ nlines = 0

\* An activation of DefinedWord.__call__: the word (self), where its loop
\* is ("loop": about to fetch; "called": inside handle_op; "returned":
\* handle_op is back, `vm.ip += 1` is next), and the machine's IP, return
\* stack and frame stack at the moment of the call (history).
Activation(w, vm0) ==
    [word |-> w, at |-> "loop", call_ip |-> vm0.ip,
     call_rs |-> vm0.return_stack, call_fs |-> vm0.frame_stack]

\* The loop position of the innermost activation of a call stack.
Mark(cs, where) == IF Len(cs) = 0 THEN cs ELSE [cs EXCEPT ![Len(cs)].at = where]

NewIds(ws) == (Len(words) + 1)..Len(ws)

\* The definitions open after the built-in fn ran on c0 with outcome r.
OpenedAfter(fn, c0, r) ==
    IF fn = "colon"
    THEN Append(opened[Depth], [ip |-> c0.vm.ip, rs |-> r.vm.return_stack])
    ELSE IF fn = "semicolon" /\ opened[Depth] # <<>> THEN Pop(opened[Depth])
    ELSE opened[Depth]

\* An exception leaves every activation and every machine down to the
\* read-eval loop; the machines it passes stay as they are.
Unwound(r) ==
    [vms |-> <<IF Depth = 1 THEN r.vm ELSE vms[1]>>,
     calls |-> << <<>> >>,
     created |-> <<IF Depth = 1 THEN created[1] \cup NewIds(r.words) ELSE created[1]>>,
     opened |-> <<opened[1]>>,
     words |-> r.words, pc |-> "raised", exc |-> r.exc]

StepState(vm, cs, ws, op) ==
    [vms |-> [vms EXCEPT ![Depth] = vm],
     calls |-> [calls EXCEPT ![Depth] = cs],
     created |-> [created EXCEPT ![Depth] = @ \cup NewIds(ws)],
     opened |-> [opened EXCEPT ![Depth] = op],
     words |-> ws, pc |-> "running", exc |-> ""]

\* What follows handle_op or compile, run on c0 with outcome r, in the loop
\* of run (inWord false) or of a defined word (inWord true); fn names the
\* built-in that ran ("" when none did).
Settled(c0, r, inWord, fn) ==
    IF r.exc # "" THEN Unwound(r)
    ELSE IF r.call # 0
    THEN StepState(r.vm,
                   Append(Mark(calls[Depth], "called"), Activation(r.call, c0.vm)),
                   r.words, opened[Depth])
    ELSE IF r.imp # <<>>
    THEN LET here == StepState(r.vm, Mark(calls[Depth], "called"), r.words, opened[Depth])
         IN [here EXCEPT !.vms = Append(@, VirtualMachine(r.imp[1], r.words)),
                         !.calls = Append(@, <<>>),
                         !.created = Append(@, {}),
                         !.opened = Append(@, <<>>)]
    ELSE IF inWord
    THEN LET a == AddIp(Ctx(r), 1)
         IN IF a.exc # "" THEN Unwound(a)
            ELSE StepState(a.vm, calls[Depth], a.words, OpenedAfter(fn, c0, r))
    ELSE StepState(r.vm, calls[Depth], r.words, OpenedAfter(fn, c0, r))

Becomes(ns) ==
    /\ vms' = ns.vms
    /\ calls' = ns.calls
    /\ created' = ns.created
    /\ opened' = ns.opened
    /\ words' = ns.words
    /\ pc' = ns.pc
    /\ exc' = ns.exc

AtTopLevel == pc = "running" /\ calls[Depth] = <<>>
InWord == pc = "running" /\ calls[Depth] # <<>>
Act == Top(calls[Depth])

\* The symbol run() fetches next and what it resolves to.
Fetched == NextWord(cur.stream)
AfterFetch == [Cur EXCEPT !.vm.stream = Fetched.st]
Parsed == parse_symbol(cur, Fetched.word)

\* run() is about to dispatch a resolved op; whether the dispatch executes
\* it (lines 179-182) or compiles it (line 184).
Dispatching == AtTopLevel /\ ~Fetched.eof /\ Parsed.exc = ""
Executes(op) == cur.immediate \/ (Callable(op) /\ words[op.w].immediate)

\* The index DefinedWord.__call__ fetches with: `self.code[vm.ip]`.
CanFetch == IsNum(cur.ip) /\ PyIndexOK(words[Act.word].code, Num(cur.ip))
Fetching == InWord /\ Act.at = "loop" /\ CanFetch
CodeOp == PyGet(words[Act.word].code, Num(cur.ip))

\* The function of the built-in word an op names, "" for any other op.
FuncOf(op) == IF Callable(op) /\ words[op.w].builtin THEN words[op.w].func ELSE ""

\* repl, lines 120-121: a line is read and handed to read_input.
ReadInput(line) ==
    /\ pc \in {"prompt", "reverted"}
    /\ nlines < MaxLines
    /\ vms' = <<read_input(Cur, line).vm>>
    /\ source' = line
    /\ nlines' = nlines + 1
    /\ pc' = "running"
    /\ UNCHANGED <<calls, created, opened, words, exc>>

\* One iteration of the loop of run().
RunSymbol ==
    /\ AtTopLevel
    /\ ~Fetched.eof
    /\ Becomes(Settled(AfterFetch,
                       IF Parsed.exc # "" THEN Raise(AfterFetch, Parsed.exc)
                       ELSE Dispatch(AfterFetch, Parsed.op),
                       FALSE,
                       IF Parsed.exc = "" /\ Executes(Parsed.op)
                       THEN FuncOf(Parsed.op) ELSE ""))
    /\ UNCHANGED <<source, nlines>>

\* run() of the read-eval loop's machine returns: the stream is exhausted.
RunEnd ==
    /\ AtTopLevel
    /\ Depth = 1
    /\ Fetched.eof
    /\ vms' = <<AfterFetch.vm>>
    /\ pc' = "prompt"
    /\ UNCHANGED <<calls, created, opened, words, exc, source, nlines>>

\* run() of a sub-machine returns: import_module publishes its words and
\* returns to the handle_op that called it.
ImportReturn ==
    /\ AtTopLevel
    /\ Depth > 1
    /\ Fetched.eof
    /\ vms' = [SubSeq(vms, 1, Depth - 1) EXCEPT
                 ![Depth - 1] = import_publish(@, AfterFetch.vm, words)]
    /\ calls' = [SubSeq(calls, 1, Depth - 1) EXCEPT ![Depth - 1] = Mark(@, "returned")]
    /\ created' = SubSeq(created, 1, Depth - 1)
    /\ opened' = SubSeq(opened, 1, Depth - 1)
    /\ UNCHANGED <<words, pc, exc, source, nlines>>

\* One iteration of the loop of DefinedWord.__call__: fetch, handle_op and,
\* when handle_op is back at once, `vm.ip += 1`.
WordOp ==
    /\ InWord
    /\ Act.at = "loop"
    /\ ~IsNum(cur.ip) \/ CanFetch
    /\ Becomes(Settled(Cur,
                       IF ~IsNum(cur.ip) THEN Raise(Cur, "TypeError")
                       ELSE handle_op(Cur, CodeOp),
                       TRUE,
                       IF ~IsNum(cur.ip) THEN "" ELSE FuncOf(CodeOp)))
    /\ UNCHANGED <<source, nlines>>

\* A variant of the end of __call__ that leaves the word on the frame stack.
WordLeave_keeps_frame(c) == vm_exit(c)

\* DefinedWord.__call__, lines 54-55, after the fetch raised IndexError.
WordLeave(c) ==
    LET r == vm_exit(c)
    IN IF r.exc # "" THEN r
       ELSE IF Len(r.vm.frame_stack) = 0 THEN Raise(Ctx(r), "IndexError")
       ELSE Ok([Ctx(r) EXCEPT !.vm.frame_stack = Pop(@)])

\* The loop of a defined word ends: IP indexes no slot of its code.
Returning == InWord /\ Act.at = "loop" /\ IsNum(cur.ip) /\ ~CanFetch

WordReturn ==
    /\ Returning
    /\ LET r == WordLeave(Cur)
       IN Becomes(IF r.exc # "" THEN Unwound(r)
                  ELSE StepState(r.vm, Mark(Pop(calls[Depth]), "returned"), r.words,
                                 opened[Depth]))
    /\ UNCHANGED <<source, nlines>>

\* `vm.ip += 1` of the caller, once the word or the import it called is back.
WordAdvance ==
    /\ InWord
    /\ Act.at = "returned"
    /\ LET a == AddIp(Cur, 1)
       IN Becomes(IF a.exc # "" THEN Unwound(a)
                  ELSE StepState(a.vm, Mark(calls[Depth], "loop"), a.words,
                                 opened[Depth]))
    /\ UNCHANGED <<source, nlines>>

\* repl, lines 123-126: the error is reported and revert() is called.
Revert ==
    /\ pc = "raised"
    /\ exc \in Caught
    /\ vms' = <<revert(Cur).vm>>
    /\ pc' = "reverted"
    /\ UNCHANGED <<calls, created, opened, words, exc, source, nlines>>

\* An exception the read-eval loop does not catch ends the process.
Abort ==
    /\ pc = "raised"
    /\ exc \notin Caught
    /\ pc' = "halted"
    /\ UNCHANGED <<vms, calls, created, opened, words, exc, source, nlines>>

Next ==
    \/ \E line \in Lines : ReadInput(line)
    \/ RunSymbol
    \/ RunEnd
    \/ ImportReturn
    \/ WordOp
    \/ WordReturn
    \/ WordAdvance
    \/ Revert
    \/ Abort

Spec == Init /\ [][Next]_vars

\* ------------------------------------------------------------------ claims

Ran(d) == {d[k] : k \in DOMAIN d}

\* What a host can observe of a machine: stacks, IP, heap, mode and, per
\* name of the dictionary, the word bound to it.
Observable(vm, ws) ==
    [stack |-> vm.stack, return_stack |-> vm.return_stack,
     frame_stack |-> vm.frame_stack, ip |-> vm.ip, heap |-> vm.heap,
     immediate |-> vm.immediate,
     dictionary |-> [k \in DOMAIN vm.dictionary |-> ws[vm.dictionary[k]]]]

\* C1: after read_input(L), run() and revert(), the stacks, the dictionary,
\* the heap, the mode flag and IP equal their values just before
\* read_input(L) (the backup read_input took), also when run() raised.
C1_RevertRestores ==
    pc = "reverted" =>
        Observable(cur, words) = Observable(cur.backup[1].vm, cur.backup[1].words)

\* C2: when `exit` or `does>` raises the word-exit signal while a defined
\* word W executes, exactly W's invocation ends: IP is popped from the
\* return stack, W is popped from the frame stack, the caller goes on with
\* the op after the call, and the signal does not leave run().
C2_ExitEndsOneInvocation ==
    [][(Fetching /\ handle_op(Cur, CodeOp).exc = "WordExit") =>
          /\ pc' = "running"
          /\ Depth' = Depth
          /\ calls'[Depth] = Mark(Pop(calls[Depth]), "returned")
          /\ vms'[Depth].ip = Top(cur.return_stack)
          /\ vms'[Depth].return_stack = Pop(cur.return_stack)
          /\ vms'[Depth].frame_stack = Pop(cur.frame_stack)]_vars

\* import_module is about to return: the sub-machine's run() is over.
ImportReturning == AtTopLevel /\ Depth > 1 /\ Fetched.eof

\* C3 as stated: after import_module(M) every word M's source defined and
\* did not mark hidden is in the importer's dictionary under its name, and
\* no word M marked hidden is.
C3_EveryDefinedWordPublished ==
    [][ImportReturning =>
          \A w \in created[Depth] :
              LET d == vms'[Depth - 1].dictionary
              IN IF words[w].hidden THEN w \notin Ran(d)
                 ELSE words[w].symbol \in DOMAIN d /\ d[words[w].symbol] = w]_vars

\* C3 as amended: after import_module(M) every name that M's dictionary
\* binds, when M's run ends, to a defined word not marked hidden is bound
\* to that word in the importer's dictionary, and no word M marked hidden is
\* in the importer's dictionary.
C3_ImportVisibility ==
    [][ImportReturning =>
          LET d == vms'[Depth - 1].dictionary
              md == cur.dictionary
          IN /\ \A k \in DOMAIN md :
                    (~words[md[k]].builtin /\ ~words[md[k]].hidden) =>
                        (k \in DOMAIN d /\ d[k] = md[k])
             /\ \A w \in created[Depth] : words[w].hidden => w \notin Ran(d)]_vars

\* `import m pub` has run: pub is resolvable and left 1, priv is not.
C3_Witness ==
    /\ pc = "prompt" /\ source = L_imp_m /\ nlines = 1
    /\ n_pub \in DOMAIN cur.dictionary
    /\ n_priv \notin DOMAIN cur.dictionary
    /\ cur.stack = <<IntV(1)>>

\* The part of a machine import_module must leave alone.
Frame(vm) ==
    [stack |-> vm.stack, return_stack |-> vm.return_stack,
     frame_stack |-> vm.frame_stack, heap |-> vm.heap, ip |-> vm.ip,
     immediate |-> vm.immediate, last_word |-> vm.last_word]

\* C4: import_module changes only the importer's dictionary: from the call
\* to its return the importer's data stack, return stack, frame stack, heap,
\* IP, mode flag and last_word stay the same, whatever the module's code
\* does in its own machine.
C4_ImportFrame ==
    [][/\ (Depth' > Depth => Frame(vms'[Depth]) = Frame(cur))
       /\ ((Depth > 1 /\ Depth' >= Depth) => \A i \in 1..(Depth - 1) : vms'[i] = vms[i])
       /\ (ImportReturning => Frame(vms'[Depth - 1]) = Frame(vms[Depth - 1]))]_vars

\* `import r` is back: r pushed a value, stored a cell and defined words in
\* its own machine; the importer has r's public word and nothing else.
C4_Witness ==
    /\ Depth = 1 /\ nlines = 1 /\ source = L_imp_r /\ pc = "running"
    /\ lit("s") \in DOMAIN cur.dictionary
    /\ cur.stack = <<>> /\ cur.heap = EmptyMap /\ cur.last_word = 0

\* C5: CharStream.write(text) appends the text after everything already in
\* the stream and leaves the read cursor where it was: what was in the
\* stream, the unread characters included, is still there, before the text.
C5_WriteAppends ==
    [][(pc \in {"prompt", "reverted"} /\ pc' = "running") =>
          LET old == cur.stream
              new == vms'[1].stream
          IN /\ new.pos = old.pos
             /\ Len(new.buf) >= Len(old.buf) + Len(source')
             /\ SubSeq(new.buf, 1, Len(old.buf)) = old.buf
             /\ SubSeq(new.buf, Len(new.buf) - Len(source') + 1, Len(new.buf)) = source']_vars

\* C6: the mode flag of a machine starts as Interpret, and when run() has
\* processed the `;` of a definition the mode flag is Interpret, whatever
\* `[` and `]` did before it.
C6_ModeAfterSemicolon ==
    /\ vms[1].immediate
    /\ [][/\ (Depth' > Depth => vms'[Depth'].immediate)
          /\ ((Dispatching /\ FuncOf(Parsed.op) = "semicolon" /\ pc' = "running") =>
                 vms'[Depth].immediate)]_vars

\* `: greet [ 41 1 + ] , ; greet` has run: the definition switched to Interpret and
\* back to Compile before its `;`.
C6_Witness ==
    /\ pc = "prompt" /\ source = L_greet /\ nlines = 1
    /\ cur.immediate
    /\ n_undef \notin DOMAIN cur.dictionary /\ n_greet \in DOMAIN cur.dictionary

\* The dispatch executed the op: the step is handle_op's outcome.
ExecuteEffect ==
    LET ns == Settled(AfterFetch, handle_op(AfterFetch, Parsed.op), FALSE, "")
    IN /\ vms' = ns.vms /\ calls' = ns.calls /\ words' = ns.words
       /\ pc' = ns.pc /\ exc' = ns.exc

\* The dispatch compiled the op: it is the new last slot of last_word.code,
\* IP is one further, and the op did not run.
CompileEffect ==
    /\ pc' = "running" /\ Depth' = Depth /\ calls' = calls
    /\ words' = [words EXCEPT ![cur.last_word].code = Append(@, Parsed.op)]
    /\ vms'[Depth].ip = IntV(Num(cur.ip) + 1)
    /\ vms'[Depth].stack = cur.stack
    /\ vms'[Depth].heap = cur.heap
    /\ vms'[Depth].immediate = cur.immediate

\* C7 as stated: in Compile mode a literal or a non-immediate word is
\* appended to last_word.code, IP advances by one and the op is not
\* executed; an immediate word is executed and not appended; in Interpret
\* mode every op is executed and nothing is appended.
C7_DispatchAlwaysAppends ==
    [][Dispatching =>
          IF cur.immediate \/ (Callable(Parsed.op) /\ words[Parsed.op.w].immediate)
          THEN ExecuteEffect
          ELSE cur.last_word # 0 /\ IsNum(cur.ip) /\ CompileEffect]_vars

\* C7 as amended: as stated when a word has been created (last_word is set)
\* and IP holds a number; otherwise the dispatch of an op to compile appends
\* nothing and an AttributeError (no last_word) or a TypeError (IP is no
\* number) leaves run().
C7_Dispatch ==
    [][Dispatching =>
          IF cur.immediate \/ (Callable(Parsed.op) /\ words[Parsed.op.w].immediate)
          THEN ExecuteEffect
          ELSE IF cur.last_word # 0 /\ IsNum(cur.ip) THEN CompileEffect
          ELSE /\ pc' = "raised"
               /\ exc' = (IF IsNum(cur.ip) THEN "AttributeError" ELSE "TypeError")
               /\ words' = words]_vars

\* A definition is open and its first literal has just been compiled.
C7_Witness ==
    /\ pc = "running" /\ AtTopLevel /\ ~cur.immediate
    /\ cur.last_word # 0
    /\ words[cur.last_word].code = <<IntV(1)>>
    /\ cur.ip = IntV(1) /\ cur.stack = <<>>

\* The body of the word left the return stack as enter left it.
Balanced == cur.return_stack = Push(Act.call_rs, Act.call_ip)

\* C8: when an invocation of a defined word returns normally and its body
\* left the return stack balanced, IP is the IP at the moment of the call
\* and the return stack and the frame stack are as they were before the
\* call, at every depth of nesting.
C8_CallRestores ==
    [][(Returning /\ Balanced) =>
          /\ pc' = "running"
          /\ calls'[Depth] = Mark(Pop(calls[Depth]), "returned")
          /\ vms'[Depth].ip = Act.call_ip
          /\ vms'[Depth].return_stack = Act.call_rs
          /\ vms'[Depth].frame_stack = Act.call_fs]_vars

\* A word called from a word called from a word has returned to its caller.
C8_Witness ==
    /\ InWord /\ Len(calls[Depth]) >= 2 /\ Act.at = "returned"
    /\ Len(cur.frame_stack) = Len(calls[Depth])
    /\ cur.ip = IntV(0) /\ Len(cur.return_stack) = 2

\* A defined word is about to be entered.
Entering ==
    \/ (Dispatching /\ Executes(Parsed.op) /\ Callable(Parsed.op)
            /\ ~words[Parsed.op.w].builtin)
    \/ (Fetching /\ Callable(CodeOp) /\ ~words[CodeOp.w].builtin)

\* run() is about to execute the `;` of an open definition.
Closing == Dispatching /\ FuncOf(Parsed.op) = "semicolon" /\ opened[Depth] # <<>>

\* C9 as stated: the value loaded into IP when an invocation ends or when
\* `;` closes a definition is always the IP the matching enter saved.
C9_ExitAlwaysLoadsSavedIp ==
    [][/\ ((Returning /\ pc' = "running") => vms'[Depth].ip = Act.call_ip)
       /\ ((Closing /\ pc' = "running") => vms'[Depth].ip = Top(opened[Depth]).ip)]_vars

\* C9 as amended: enter pushes exactly the current IP and exit pops exactly
\* the top of the return stack into IP, whatever that value is; it is the IP
\* the matching enter saved whenever the return stack is then as that enter
\* left it (the uses of `>r`, `r>`, `rdrop`, `r+`, `r-` in between undid one
\* another).
C9_ExitLoadsTop ==
    [][/\ ((Entering /\ pc' = "running") =>
              /\ vms'[Depth].return_stack = Push(cur.return_stack, cur.ip)
              /\ vms'[Depth].ip = IntV(0))
       /\ ((Returning /\ pc' = "running") =>
              /\ vms'[Depth].ip = Top(cur.return_stack)
              /\ vms'[Depth].return_stack = Pop(cur.return_stack)
              /\ (Balanced => vms'[Depth].ip = Act.call_ip))
       /\ ((Closing /\ pc' = "running") =>
              /\ vms'[Depth].ip = Top(cur.return_stack)
              /\ vms'[Depth].return_stack = Pop(cur.return_stack)
              /\ (cur.return_stack = Top(opened[Depth]).rs =>
                     vms'[Depth].ip = Top(opened[Depth]).ip))]_vars

\* `: e 4 >r i r> + ; e` has run: the word used `>r`, `i` and `r>` and the
\* call restored IP.
C9_Witness ==
    /\ pc = "prompt" /\ source = L_bal /\ nlines = 1
    /\ cur.stack = <<IntV(8)>>
    /\ cur.ip = IntV(0) /\ cur.return_stack = <<>>

\* Values and addresses the heap round trip is tried with.
ProbeValues == {IntV(3), IntV(-2), BoolV(TRUE), WordV(1)}
ProbeAddresses == {IntV(5), IntV(0), IntV(1), BoolV(FALSE), WordV(2)}

\* C10: for a value v and an address a that is no key of the heap, `!` with
\* v below a on the stack and then `@` on a pushes exactly v; the heap is
\* the heap before plus a -> v, the stack below is unchanged.
C10_HeapRoundTrip ==
    \A v \in ProbeValues, a \in ProbeAddresses :
        (\A k \in DOMAIN cur.heap : Key(a) # k) =>
            LET r1 == bang([Cur EXCEPT !.vm.stack = @ \o <<v, a>>])
                r2 == at([Ctx(r1) EXCEPT !.vm.stack = Push(@, a)])
            IN /\ r1.exc = "" /\ r2.exc = ""
               /\ r1.vm.stack = cur.stack
               /\ r2.vm.stack = Push(cur.stack, v)
               /\ DOMAIN r2.vm.heap = DOMAIN cur.heap \cup {Key(a)}
               /\ r2.vm.heap[Key(a)] = v
               /\ \A k \in DOMAIN cur.heap : r2.vm.heap[k] = cur.heap[k]
               /\ [r2.vm EXCEPT !.stack = cur.stack, !.heap = cur.heap] = cur
               /\ r2.words = words

\* `3 5 ! 5 @` has run on a heap that did not hold 5.
C10_Witness ==
    /\ pc = "prompt" /\ source = L_heap(lit("3"), lit("5")) /\ nlines = 1
    /\ cur.stack = <<IntV(3)>>
    /\ DOMAIN cur.heap = {IntV(5)} /\ cur.heap[IntV(5)] = IntV(3)

\* The built-in function this step executes ("" when it executes none) and
\* the state it runs on: run() has fetched the symbol, a word has not.
ExecFn ==
    IF Dispatching /\ Executes(Parsed.op) THEN FuncOf(Parsed.op)
    ELSE IF Fetching THEN FuncOf(CodeOp)
    ELSE ""
ExecCtx == IF Dispatching THEN AfterFetch ELSE Cur

\* C11: when a word named N is defined again, N is bound to a new word
\* object, the dictionary has the same names as before and every word
\* object that existed, the old N included, is unchanged, so that code
\* compiled before still refers to and runs the old word: after
\* `: a 1 ; : b a ; : a 2 ; a b` the stack is [2 1].
C11_Redefinition ==
    /\ []((pc = "prompt" /\ source = L_redef /\ nlines = 1) =>
             cur.stack = <<IntV(2), IntV(1)>>)
    /\ [][(ExecFn \in {"create", "colon"} /\ pc' = "running") =>
             LET N == next_symbol(ExecCtx).word
                 d == cur.dictionary
                 d2 == vms'[Depth].dictionary
             IN N \in DOMAIN d =>
                    /\ DOMAIN d2 = DOMAIN d
                    /\ d2[N] = Len(words) + 1
                    /\ Len(words') = Len(words) + 1
                    /\ words'[d2[N]].symbol = N /\ words'[d2[N]].code = <<>>
                    /\ \A k \in DOMAIN d : k # N => d2[k] = d[k]
                    /\ \A i \in 1..Len(words) : words'[i] = words[i]]_vars

\* `: a 1 ; : b a ; : a 2 ; a b` has run: b's code holds the first a, the
\* name a is bound to the second.
C11_Witness ==
    /\ pc = "prompt" /\ source = L_redef /\ nlines = 1
    /\ cur.stack = <<IntV(2), IntV(1)>>
    /\ LET b == words[cur.dictionary[lit("b")]]
           a == words[cur.dictionary[lit("a")]]
       IN /\ Len(b.code) = 1 /\ b.code[1].t = "word"
          /\ b.code[1].w # cur.dictionary[lit("a")]
          /\ words[b.code[1].w].symbol = lit("a")
          /\ words[b.code[1].w].code = <<IntV(1)>>
          /\ a.code = <<IntV(2)>>

\* read_input is about to take the snapshot of the read-eval loop's machine.
TakingBackup == pc \in {"prompt", "reverted"} /\ pc' = "running"

\* C12: the snapshot make_backup takes holds the machine and its word
\* objects as they are at that moment, and no later step of the live
\* machine (stack, heap, code vector, dictionary, mode, IP) changes a
\* snapshot, of the read-eval loop's machine or of a sub-machine.
C12_SnapshotIndependent ==
    [][/\ (TakingBackup =>
              /\ vms'[1].backup[1].vm = cur
              /\ vms'[1].backup[1].words = words)
       /\ (~TakingBackup =>
              \A i \in 1..Depth : i <= Depth' => vms'[i].backup = vms[i].backup)]_vars

\* `: f ( a` left f open; the next line `9` was compiled into f, a word
\* the snapshot of that line holds with an empty code vector.
C12_Witness ==
    /\ pc = "prompt" /\ nlines = 2 /\ source = L_nine
    /\ lit("f") \in DOMAIN cur.dictionary
    /\ words[cur.dictionary[lit("f")]].code = <<IntV(9)>>
    /\ cur.backup[1].words[cur.dictionary[lit("f")]].code = <<>>
    /\ cur.ip # cur.backup[1].vm.ip

\* The line read before the last one, in a session of two lines or more
\* whose earlier lines ran to their end.
PreviousLine == Tail(vms[1].backup[1].vm.stream.buf)

\* C13 as stated: `0 x ! 3 x +! 4 x +! x @` on a fresh machine completes
\* without error and leaves the data stack [7].
C13_AccumulateOnFreshVm ==
    (source = L_accum /\ nlines = 1 /\ pc # "running") =>
        (pc = "prompt" /\ cur.stack = <<IntV(7)>>)

\* C13 as amended: on a fresh machine the line raises the runtime error of
\* an undefined symbol at the first `x` and leaves the data stack [0]; once
\* `x` is a word that pushes an address (`: x 5 ;`) the line completes
\* without error and leaves the data stack [7], the cell holding 7.
C13_Accumulate ==
    /\ (source = L_accum /\ nlines = 1 /\ pc # "running") =>
           /\ pc \in {"raised", "reverted"} /\ exc = "VmRuntimeError"
           /\ cur.stack = <<IntV(0)>> /\ cur.heap = EmptyMap
    /\ (source = L_accum /\ nlines = 2 /\ PreviousLine = L_x /\ pc # "running") =>
           /\ pc = "prompt"
           /\ cur.stack = <<IntV(7)>>
           /\ DOMAIN cur.heap = {IntV(5)} /\ cur.heap[IntV(5)] = IntV(7)

\* `: x 5 ;` and then `0 x ! 3 x +! 4 x +! x @` have run.
C13_Witness ==
    /\ source = L_accum /\ nlines = 2 /\ PreviousLine = L_x /\ pc = "prompt"
    /\ cur.stack = <<IntV(7)>> /\ cur.heap[IntV(5)] = IntV(7)

\* C14 as stated: `: abs? dup 0< 0branch 2 neg ; -7 abs?` on a fresh
\* machine leaves the data stack [7].
C14_AbsLeavesSeven ==
    (source = L_abs /\ nlines = 1 /\ pc = "prompt") => cur.stack = <<IntV(7)>>

\* C14 as amended: the line leaves the data stack [-7 7]: `0<` pushes its
\* boolean over the copy `dup` made without consuming it, `0branch` pops
\* that boolean, true for -7, and skips only its offset slot 2, and `neg`
\* negates the copy; the tested -7 stays below.
C14_Abs ==
    (source = L_abs /\ nlines = 1 /\ pc # "running") =>
        /\ pc = "prompt"
        /\ cur.stack = <<IntV(-7), IntV(7)>>
        /\ LET code == words[cur.dictionary[n_abs]].code
           IN /\ Len(code) = 5
              /\ FuncOf(code[1]) = "dup" /\ FuncOf(code[2]) = "zero_lt"
              /\ FuncOf(code[3]) = "zbranch" /\ code[4] = IntV(2)
              /\ FuncOf(code[5]) = "neg"

\* The line of abs? has run.
C14_Witness ==
    /\ source = L_abs /\ nlines = 1 /\ pc = "prompt"
    /\ cur.stack = <<IntV(-7), IntV(7)>> /\ cur.return_stack = <<>>

\* run() is about to fetch the symbol sym.
NextIs(sym) == AtTopLevel /\ ~Fetched.eof /\ Fetched.word = sym

\* C15: `: greet [ 41 1 + ] , ; greet` on a fresh machine leaves the data
\* stack [42]: the mode is Interpret between `[` and `]` (41 1 + is
\* executed, nothing is compiled) and Compile after `]`, and `,` appends the
\* value 42 to greet's code vector.
C15_Greet ==
    (source = L_greet /\ nlines = 1) =>
        /\ NextIs(sym_rbrac) =>
               /\ cur.immediate /\ cur.stack = <<IntV(42)>>
               /\ words[cur.dictionary[n_greet]].code = <<>>
        /\ NextIs(sym_comma) => ~cur.immediate
        /\ pc # "running" =>
               /\ pc = "prompt" /\ cur.immediate
               /\ cur.stack = <<IntV(42)>>
               /\ LET code == words[cur.dictionary[n_greet]].code
                  IN code = <<WordV(cur.dictionary[sym_comma]), IntV(42)>>

\* The line of greet has run: 42 is on the stack and in greet's code.
C15_Witness ==
    /\ source = L_greet /\ nlines = 1 /\ pc = "prompt"
    /\ cur.stack = <<IntV(42)>>
    /\ words[cur.dictionary[n_greet]].code[2] = IntV(42)

\* The symbols of a line of the form `: name body ; pre name`.
C16_Cases ==
    {[line |-> L_square, name |-> n_square, pre |-> <<lit("5")>>,
      body |-> <<sym_dup, sym_mul>>],
     [line |-> L_w, name |-> lit("w"), pre |-> <<>>,
      body |-> <<lit("3"), lit("5"), sym_bang, lit("5"), sym_at, <<"0", "=">>,
                 sym_swap>>]}

\* The machine and the word objects as the current line found them.
LineStart == [vm |-> vms[1].backup[1].vm, words |-> vms[1].backup[1].words]

\* C16: from any data stack and heap, with the machine in Interpret mode,
\* `: w body ; pre w` ends with the data stack and the heap that interpreting
\* `pre body` directly gives, with no exception, in Interpret mode, w in the
\* dictionary and w's code vector holding the ops of body in source order
\* (`: square dup * ; 5 square` on a fresh machine leaves [25]).
C16_CompileThenInvoke ==
    \A k \in C16_Cases :
        (source = k.line /\ pc # "running" /\ LineStart.vm.immediate) =>
            LET direct == run_immediate(LineStart, k.pre \o k.body)
            IN /\ pc = "prompt" /\ direct.exc = ""
               /\ cur.stack = direct.vm.stack
               /\ cur.heap = direct.vm.heap
               /\ cur.immediate
               /\ k.name \in DOMAIN cur.dictionary
               /\ LET code == words[cur.dictionary[k.name]].code
                  IN /\ Len(code) = Len(k.body)
                     /\ \A i \in 1..Len(code) :
                            code[i] = parse_symbol(LineStart.vm, k.body[i]).op
               /\ (nlines = 1 /\ k.line = L_square) => cur.stack = <<IntV(25)>>

\* The line of square has run after a line that left values on the data
\* stack and in the heap.
C16_Witness ==
    /\ source = L_square /\ nlines = 2 /\ pc = "prompt"
    /\ Len(cur.stack) >= 2 /\ Top(cur.stack) = IntV(25)
    /\ LineStart.vm.heap # VirtualMachine(<<>>, InitialWords).heap
    /\ LineStart.vm.immediate

\* No occurrence of the sentinel follows the cursor of the stream the
\* executing primitive reads.
Unclosed(sentinel) ==
    LET st == ExecCtx.vm.stream
        rest == SubSeq(st.buf, st.pos + 1, Len(st.buf))
        n == Len(sentinel)
    IN \A j \in n..Len(rest) : SubSeq(rest, j - n + 1, j) # sentinel

\* C17: when `(` or `("` runs and the stream ends before its closing
\* delimiter, the primitive raises an error and no word object gets a
\* stack effect or a documentation text.
C17_UnclosedCommentRaises ==
    [][(\/ ExecFn = "paired_comment" /\ Unclosed(<<")">>)
        \/ ExecFn = "doc_comment" /\ Unclosed(<<"\"", ")">>))
       => /\ pc' = "raised"
          /\ \A w \in DOMAIN words :
                 /\ words'[w].stack_effect = words[w].stack_effect
                 /\ words'[w].doc = words[w].doc]_vars

\* C18: `exit` executed by run() while no defined word executes (the frame
\* stack is empty) raises the runtime error, never the word-exit signal,
\* whatever the return stack holds.
C18_TopLevelExitRaises ==
    [][(/\ Dispatching /\ Executes(Parsed.op) /\ FuncOf(Parsed.op) = "exit"
        /\ cur.frame_stack = <<>>)
       => (pc' = "raised" /\ exc' = "VmRuntimeError")]_vars

\* The five comparisons that test the top of the data stack, applied to the
\* machine as it is.
ZeroOneTests ==
    [zero_eq |-> zero_eq(Cur), zero_ne |-> zero_ne(Cur), zero_lt |-> zero_lt(Cur),
     zero_gt |-> zero_gt(Cur), one_eq |-> one_eq(Cur)]

\* The comparison of a number n that each of them stands for.
Compared(fn, n) ==
    CASE fn = "zero_eq" -> n = 0 [] fn = "zero_ne" -> n # 0 [] fn = "zero_lt" -> n < 0
      [] fn = "zero_gt" -> n > 0 [] fn = "one_eq" -> n = 1

\* The outcome r pushes one boolean on the data stack and changes nothing
\* else of the machine or of the word objects.
PushesBoolean(r) ==
    /\ r.exc = "" /\ r.words = words
    /\ Len(r.vm.stack) = Len(cur.stack) + 1
    /\ SubSeq(r.vm.stack, 1, Len(cur.stack)) = cur.stack
    /\ Top(r.vm.stack).t = "bool"
    /\ [r.vm EXCEPT !.stack = cur.stack] = cur

\* C19 as stated: on every non-empty data stack each of 0= 0<> 0< 0> 1=
\* leaves the elements in place, the tested top included, and pushes one
\* boolean, the comparison of the former top with 0 (or 1).
C19_AlwaysPushes ==
    cur.stack # <<>> =>
        \A fn \in DOMAIN ZeroOneTests :
            /\ PushesBoolean(ZeroOneTests[fn])
            /\ IsNum(Top(cur.stack)) =>
                   Top(ZeroOneTests[fn].vm.stack) = BoolV(Compared(fn, Num(Top(cur.stack))))

\* C19 as amended: that holds when the top is a number or a boolean; when
\* it is a word object, 0= and 1= push false and 0<> pushes true the same
\* way, and 0< and 0> raise TypeError and leave the machine as it was.
C19_ZeroOneTests ==
    cur.stack # <<>> =>
        \A fn \in DOMAIN ZeroOneTests :
            LET r == ZeroOneTests[fn]
                top == Top(cur.stack)
            IN IF IsNum(top)
               THEN PushesBoolean(r) /\ Top(r.vm.stack) = BoolV(Compared(fn, Num(top)))
               ELSE IF fn \in {"zero_lt", "zero_gt"}
               THEN r.exc = "TypeError" /\ r.vm = cur /\ r.words = words
               ELSE PushesBoolean(r) /\ Top(r.vm.stack) = BoolV(fn = "zero_ne")

\* `0<` of abs? has just run on -7: the boolean lies over the tested value.
C19_Witness ==
    /\ source = L_abs /\ InWord
    /\ cur.stack = <<IntV(-7), IntV(-7), BoolV(TRUE)>>
    /\ FuncOf(PyGet(words[Act.word].code, Num(cur.ip) - 1)) = "zero_lt"

\* The loop of a defined word is about to dispatch `branch` or `0branch`
\* at the code index IP, the next slot holds a number and, for `0branch`,
\* the data stack is not empty.
AtBranch ==
    /\ Fetching /\ FuncOf(CodeOp) \in {"branch", "zbranch"}
    /\ PyIndexOK(words[Act.word].code, Num(cur.ip) + 1)
    /\ IsNum(PyGet(words[Act.word].code, Num(cur.ip) + 1))
    /\ FuncOf(CodeOp) = "zbranch" => cur.stack # <<>>

\* The offset in the slot after it, and whether the jump is taken.
BranchOffset == Num(PyGet(words[Act.word].code, Num(cur.ip) + 1))
BranchTaken == FuncOf(CodeOp) = "branch" \/ ~Truthy(Top(cur.stack))

\* The primitive at index k sets IP to k+n+1 when the jump is taken and to
\* k+1 otherwise, `0branch` pops one value, and nothing else changes; the
\* loop then adds one to IP.
BranchEffect ==
    LET r == handle_op(Cur, CodeOp)
        k == Num(cur.ip)
        target == IF BranchTaken THEN k + BranchOffset + 1 ELSE k + 1
        stack == IF FuncOf(CodeOp) = "branch" THEN cur.stack ELSE Pop(cur.stack)
    IN /\ r.exc = "" /\ r.words = words
       /\ r.vm = [cur EXCEPT !.ip = IntV(target), !.stack = stack]
       /\ pc' = "running" /\ words' = words /\ calls' = calls
       /\ vms' = [vms EXCEPT ![Depth] = [cur EXCEPT !.ip = IntV(target + 1),
                                                      !.stack = stack]]

\* The slot the loop dispatches next is the offset slot.
OffsetSlotNext == vms'[Depth].ip = IntV(Num(cur.ip) + 1)

Then(r, f(_)) == IF r.exc # "" THEN r ELSE f(Ctx(r))

\* C21: on every data stack of depth >= 2 `swap swap` changes nothing; on
\* every data stack of depth >= 3 `rot rot rot` changes nothing and `-rot`
\* gives what `rot rot` gives; on every non-empty data stack `dup drop`
\* changes nothing.  The line `1 2 3 rot rot rot -rot swap swap dup drop`
\* leaves [3 1 2].
C21_ShufflerIdentities ==
    /\ Len(cur.stack) >= 2 => Then(swap(Cur), swap) = Ok(Cur)
    /\ Len(cur.stack) >= 3 =>
           /\ Then(Then(rot(Cur), rot), rot) = Ok(Cur)
           /\ mrot(Cur) = Then(rot(Cur), rot)
           /\ mrot(Cur).exc = ""
    /\ Len(cur.stack) >= 1 => Then(dup(Cur), drop) = Ok(Cur)
    /\ (source = L_shuffle /\ nlines = 1 /\ pc # "running") =>
           pc = "prompt" /\ cur.stack = <<IntV(3), IntV(1), IntV(2)>>

\* The line of the shufflers has run: `-rot` has turned [1 2 3] to [3 1 2].
C21_Witness ==
    /\ source = L_shuffle /\ nlines = 1 /\ pc = "prompt"
    /\ cur.stack = <<IntV(3), IntV(1), IntV(2)>>

\* The defined words that exist before and after the step.
DefinedWords == {w \in DOMAIN words : w \in DOMAIN words' /\ ~words[w].builtin}

IsPrefix(s, t) == Len(s) <= Len(t) /\ SubSeq(t, 1, Len(s)) = s

\* The word was begun by `:` and no definition is open: its `;` has run.
Closed(w) ==
    /\ words[w].text_location # -1
    /\ \A d \in 1..Depth : opened[d] = <<>>

\* The two code vectors differ in exactly one slot.
OneSlotDiffers(s, t) ==
    /\ Len(s) = Len(t)
    /\ Cardinality({i \in 1..Len(s) : s[i] # t[i]}) = 1

\* C22: the code vector of a defined word only grows by appending, and once
\* the word's `;` has run it never changes again.
C22_FrozenAfterSemicolon ==
    [][\A w \in DefinedWords :
          /\ IsPrefix(words[w].code, words'[w].code)
          /\ Closed(w) => words'[w].code = words[w].code]_vars

\* C22 as amended: only the code vector of last_word changes, by an append
\* of compile, `,` or `does>` or by a slot overwritten by `w!`, whether its
\* `;` has run or not; the code vector of a word that is not last_word
\* never changes.
C22_OnlyLastWordChanges ==
    [][\A w \in DefinedWords :
          words'[w].code # words[w].code =>
              /\ w = cur.last_word
              /\ IF ExecFn = "word_bang"
                 THEN OneSlotDiffers(words[w].code, words'[w].code)
                 ELSE /\ IsPrefix(words[w].code, words'[w].code)
                      /\ \/ ExecFn \in {"comma", "does"}
                         \/ Dispatching /\ ~Executes(Parsed.op)
                 ]_vars

\* `w!` has overwritten the slot of a word whose `;` had run.
C22_Witness ==
    /\ source = L_five /\ nlines = 1 /\ pc = "running"
    /\ cur.immediate /\ opened[1] = <<>>
    /\ cur.last_word # 0
    /\ words[cur.last_word].code = <<IntV(7)>>
    /\ words[cur.last_word].text_location # -1

\* C23: the loop of a defined word dispatches an op only when IP is a
\* zero-based index of the word's code, 0 <= IP < length; with IP outside
\* that range, below 0 included, the loop exits.
C23_DispatchInRange ==
    [][(InWord /\ Act.at = "loop" /\ IsNum(cur.ip)) =>
          LET inRange == 0 <= Num(cur.ip) /\ Num(cur.ip) < Len(words[Act.word].code)
          IN IF inRange THEN WordOp ELSE WordReturn]_vars

\* run() is about to fetch a symbol that matches the pattern of numeric
\* literals and is a key of the dictionary as well.
AtNumericName ==
    /\ AtTopLevel /\ ~Fetched.eof
    /\ is_numeric_literal(Fetched.word) /\ Fetched.word \in DOMAIN cur.dictionary

\* run() is about to fetch a symbol that is neither.
AtUndefined ==
    /\ AtTopLevel /\ ~Fetched.eof
    /\ ~is_numeric_literal(Fetched.word) /\ Fetched.word \notin DOMAIN cur.dictionary

\* C24: parse_symbol resolves every dictionary key that matches the pattern
\* of numeric literals to its number, not to the word: when run() fetches
\* such a symbol the number is pushed (Interpret mode) or compiled (Compile
\* mode, where compile fails when IP holds a word object or last_word is
\* None) and no word is invoked or compiled.  A symbol that is neither a
\* literal nor a key raises the runtime error and leaves the stacks, the
\* dictionary, the heap, the mode and the word objects unchanged.
C24_ResolutionOrder ==
    [][/\ \A sy \in DOMAIN cur.dictionary :
              is_numeric_literal(sy) =>
                  parse_symbol(cur, sy) = [exc |-> "", op |-> convert_numeric_literal(sy)]
       /\ AtNumericName =>
              LET number == convert_numeric_literal(Fetched.word)
              IN /\ ~Callable(number)
                 /\ calls' = calls
                 /\ IF cur.immediate
                    THEN /\ pc' = "running"
                         /\ vms'[Depth] = [AfterFetch.vm EXCEPT !.stack = Push(@, number)]
                         /\ words' = words
                    ELSE IF cur.last_word # 0 /\ IsNum(cur.ip)
                    THEN /\ pc' = "running"
                         /\ words' = [words EXCEPT ![cur.last_word].code = Append(@, number)]
                         /\ vms'[Depth].stack = cur.stack
                    ELSE /\ pc' = "raised" /\ exc' \in {"TypeError", "AttributeError"}
                         /\ words' = words
       /\ AtUndefined =>
              LET before == IF Depth = 1 THEN cur ELSE vms[1]
                  after == vms'[1]
              IN /\ pc' = "raised" /\ exc' = "VmRuntimeError"
                 /\ words' = words
                 /\ after.stack = before.stack
                 /\ after.return_stack = before.return_stack
                 /\ after.dictionary = before.dictionary
                 /\ after.heap = before.heap
                 /\ after.immediate = before.immediate]_vars

\* The word 5 is in the dictionary and the symbol 5 has pushed the number.
C24_Witness ==
    /\ source = L_five /\ nlines = 1 /\ pc = "prompt"
    /\ lit("5") \in DOMAIN cur.dictionary
    /\ ~words[cur.dictionary[lit("5")]].builtin
    /\ cur.stack = <<IntV(5)>>

====
